---------------------------- MODULE Spec2Model ----------------------------
(***************************************************************************)
(* Model of the cache client of go-pkg (src/cache/cache.go): ConnectRedis, *)
(* Redis.Do, the typed operations built on Do, and the Reply accessors.    *)
(* The pool is the redigo pool configured at cache.go:39-51 (Wait: true);  *)
(* the remote store answers the commands the client issues.                *)
(***************************************************************************)
EXTENDS Integers, Sequences, FiniteSets, TLC

\* ------------------------------------------------------------- bounds
MaxCap     == 2      \* config.MaxActive ranges over 0..MaxCap
MaxOps     == 2      \* operations a caller invokes one after the other

Callers    == {1, 2} \* callers sharing one client

\* ------------------------------------------------------ program constants
DefaultExpire == 900          \* 15*60, cache.go:113

\* ------------------------------------------------------------- inputs
Addrs       == {"localhost:6379"}
Keys        == {"k"}
Vals        == {"a", "b"}
ExpireArgs  == {0, 60}
PingReplies == {"PONG", "NOPE"}
NoTTL       == 0 - 1
NoKey       == 0 - 2

\* ------------------------------------------------------------- values
\* A reply value of the wire protocol as redigo hands it to the caller:
\* t = "nil" | "int" (int64) | "bulk" ([]byte) | "str" (simple string) |
\* "array" ([]interface{} of bulk strings) | "error" (redis.Error).
NilValue      == [t |-> "nil",   s |-> "", n |-> 0, l |-> <<>>]
IntValue(i)   == [t |-> "int",   s |-> "", n |-> i, l |-> <<>>]
BulkValue(b)  == [t |-> "bulk",  s |-> b,  n |-> 0, l |-> <<>>]
StrValue(b)   == [t |-> "str",   s |-> b,  n |-> 0, l |-> <<>>]
ArrayValue(l) == [t |-> "array", s |-> "", n |-> 0, l |-> l]
ErrValue      == [t |-> "error", s |-> "", n |-> 0, l |-> <<>>]

ErrorNil == "redigo: nil returned"

\* (a Do that drops the error of its command)
DoReplyDropErr(result, err) == [result |-> result, error |-> "none"]
\* &Reply{result: result, error: err}
DoReply(result, err) == [result |-> result, error |-> err]

NoReply == DoReply(NilValue, "none")

\* fmt.Errorf(ErrorFailedConnect, addr, err)
FailedConnect(addr, err) == [set |-> TRUE, addr |-> addr, cause |-> err]
NoError == [set |-> FALSE, addr |-> "", cause |-> "none"]

\* ------------------------------------------------------ remote store
\* A key of the store: a string, a set of members or a hash of field/value
\* pairs, with its time to live.
KeyRecord(present, kind, val, members, fields, ttl) ==
  [present |-> present, kind |-> kind, val |-> val, members |-> members,
   fields |-> fields, ttl |-> ttl]
AbsentKey == KeyRecord(FALSE, "", "", {}, {}, NoTTL)
StringKey(v, ttl) == KeyRecord(TRUE, "string", v, {}, {}, ttl)
SetKey(m, ttl)    == KeyRecord(TRUE, "set", "", m, {}, ttl)
HashKey(f, ttl)   == KeyRecord(TRUE, "hash", "", {}, f, ttl)

\* redis.Args{}.Add(name).AddFlat(obj): the field/value pairs of a struct.
Structs == {"p"}
AddFlat == [o \in Structs |-> {<<"X", "1">>, <<"Y", "z">>}]

Cmd(name, key, s, n) == [name |-> name, key |-> key, s |-> s, n |-> n]

\* The store after the command, as the remote service executes it.
ServerStore(st, cmd) ==
  CASE cmd.name = "SET" -> [st EXCEPT ![cmd.key] = StringKey(cmd.s, NoTTL)]
    [] cmd.name = "SADD" ->
         IF st[cmd.key].present
         THEN [st EXCEPT ![cmd.key].members = @ \cup {cmd.s}]
         ELSE [st EXCEPT ![cmd.key] = SetKey({cmd.s}, NoTTL)]
    [] cmd.name = "HMSET" ->
         LET old == IF st[cmd.key].present THEN st[cmd.key].fields ELSE {}
             new == AddFlat[cmd.s]
             kept == {f \in old : \A g \in new : g[1] # f[1]}
         IN  IF st[cmd.key].present
             THEN [st EXCEPT ![cmd.key].fields = kept \cup new]
             ELSE [st EXCEPT ![cmd.key] = HashKey(new, NoTTL)]
    [] cmd.name = "DEL" -> [st EXCEPT ![cmd.key] = AbsentKey]
    [] cmd.name = "EXPIRE" ->
         IF ~st[cmd.key].present THEN st
         ELSE IF cmd.n <= 0 THEN [st EXCEPT ![cmd.key] = AbsentKey]
         ELSE [st EXCEPT ![cmd.key].ttl = cmd.n]
    [] OTHER -> st

\* The command is refused with WRONGTYPE: the key holds another kind of value.
WrongType(st, cmd) ==
  /\ cmd.name \in {"GET", "SADD", "HMSET"}
  /\ st[cmd.key].present
  /\ st[cmd.key].kind # (CASE cmd.name = "GET" -> "string"
                           [] cmd.name = "SADD" -> "set"
                           [] cmd.name = "HMSET" -> "hash")

\* The value the remote service answers with.
ServerResult(st, cmd, pong) ==
  CASE cmd.name = "PING"   -> StrValue(pong)
    [] cmd.name = "SET"    -> StrValue("OK")
    [] cmd.name = "HMSET"  -> StrValue("OK")
    [] cmd.name = "SADD"   -> IntValue(IF st[cmd.key].present /\ cmd.s \in st[cmd.key].members
                                       THEN 0 ELSE 1)
    [] cmd.name = "GET"    -> IF st[cmd.key].present THEN BulkValue(st[cmd.key].val)
                              ELSE NilValue
    [] cmd.name = "DEL"    -> IntValue(IF st[cmd.key].present THEN 1 ELSE 0)
    [] cmd.name = "EXISTS" -> IntValue(IF st[cmd.key].present THEN 1 ELSE 0)
    [] cmd.name = "EXPIRE" -> IntValue(IF st[cmd.key].present THEN 1 ELSE 0)
    [] cmd.name = "TTL"    -> IntValue(IF ~st[cmd.key].present THEN NoKey
                                       ELSE st[cmd.key].ttl)
    [] OTHER -> NilValue

\* ---------------------------------------------------- reply decoding
\* The redigo conversions the accessors delegate to: the stored error first,
\* then the shape of the stored result.  A decoded value has the string, the
\* integer, the boolean, the float (in tenths) and the list an accessor can
\* return, and the error.
Decoded(s, n, b, f, l, err) == [s |-> s, n |-> n, b |-> b, f |-> f, l |-> l, err |-> err]
Zero(err) == Decoded("", 0, FALSE, 0, <<>>, err)
OfString(x) == Decoded(x, 0, FALSE, 0, <<>>, "none")
OfInt(x)    == Decoded("", x, FALSE, 0, <<>>, "none")
OfBool(x)   == Decoded("", 0, x, 0, <<>>, "none")
OfFloat(x)  == Decoded("", 0, FALSE, x, <<>>, "none")
OfList(x)   == Decoded("", 0, FALSE, 0, x, "none")

\* strconv.ParseInt, strconv.ParseFloat (tenths) and strconv.ParseBool on the
\* byte strings of this model
Digits == [s \in {"0", "1", "7"} |-> CASE s = "0" -> 0 [] s = "1" -> 1 [] s = "7" -> 7]
Tenths == [s \in {"0", "1", "7", "1.5"} |->
             CASE s = "0" -> 0 [] s = "1" -> 10 [] s = "7" -> 70 [] s = "1.5" -> 15]
BoolTrue  == {"1", "t", "T", "TRUE", "true", "True"}
BoolFalse == {"0", "f", "F", "FALSE", "false", "False"}
\* the byte strings json.Unmarshal accepts
JsonValid == {"0", "1", "7", "1.5", "true", "{\"X\":1,\"Y\":\"z\"}"}

Shape(rp, nilErr) ==
  CASE rp.result.t = "nil" -> Zero(nilErr)
    [] OTHER -> Zero("unexpected type")

\* (a String that decodes a nil result as the empty string)
ReplyStringNilAsEmpty(rp) ==
  IF rp.error # "none" THEN Zero(rp.error)
  ELSE CASE rp.result.t \in {"bulk", "str"} -> OfString(rp.result.s)
         [] OTHER -> Shape(rp, "none")
\* redis.String(rp.result, rp.error)
ReplyString(rp) ==
  IF rp.error # "none" THEN Zero(rp.error)
  ELSE CASE rp.result.t \in {"bulk", "str"} -> OfString(rp.result.s)
         [] OTHER -> Shape(rp, ErrorNil)

\* redis.Int64(rp.result, rp.error) and redis.Int(rp.result, rp.error)
ReplyInt64(rp) ==
  IF rp.error # "none" THEN Zero(rp.error)
  ELSE CASE rp.result.t = "int" -> OfInt(rp.result.n)
         [] rp.result.t = "bulk" ->
              IF rp.result.s \in DOMAIN Digits THEN OfInt(Digits[rp.result.s])
              ELSE Zero("invalid syntax")
         [] OTHER -> Shape(rp, ErrorNil)
ReplyInt(rp) == ReplyInt64(rp)

\* redis.Float64(rp.result, rp.error)
ReplyFloat64(rp) ==
  IF rp.error # "none" THEN Zero(rp.error)
  ELSE CASE rp.result.t = "bulk" ->
              IF rp.result.s \in DOMAIN Tenths THEN OfFloat(Tenths[rp.result.s])
              ELSE Zero("invalid syntax")
         [] OTHER -> Shape(rp, ErrorNil)

\* redis.Bool(rp.result, rp.error)
ReplyBool(rp) ==
  IF rp.error # "none" THEN Zero(rp.error)
  ELSE CASE rp.result.t = "int" -> OfBool(rp.result.n # 0)
         [] rp.result.t = "bulk" ->
              IF rp.result.s \in BoolTrue THEN OfBool(TRUE)
              ELSE IF rp.result.s \in BoolFalse THEN OfBool(FALSE)
              ELSE Zero("invalid syntax")
         [] OTHER -> Shape(rp, ErrorNil)

\* redis.Strings(rp.result, rp.error) and redis.Values(rp.result, rp.error)
ReplyStrings(rp) ==
  IF rp.error # "none" THEN Zero(rp.error)
  ELSE CASE rp.result.t = "array" -> OfList(rp.result.l)
         [] OTHER -> Shape(rp, ErrorNil)

\* redis.Bytes(rp.result, rp.error)
ReplyBytes(rp) ==
  IF rp.error # "none" THEN Zero(rp.error)
  ELSE CASE rp.result.t \in {"bulk", "str"} -> OfString(rp.result.s)
         [] OTHER -> Shape(rp, ErrorNil)

\* rp.error
ReplyError(rp) == rp.error

\* Unmarshal: redis.Bytes, then json.Unmarshal(b, obj).  The pair is the error
\* returned and the caller's object afterwards.
Outcome(err, obj) == [err |-> err, obj |-> obj]

\* (an Unmarshal that clears the object before it looks at the stored error)
ReplyUnmarshalEager(rp, obj) ==
  LET b == ReplyBytes(rp)
  IN  IF b.err # "none" THEN Outcome(b.err, <<>>)
      ELSE IF b.s \notin JsonValid THEN Outcome("invalid json", obj)
      ELSE Outcome("none", <<"json", b.s>>)
\* Unmarshal
ReplyUnmarshal(rp, obj) ==
  LET b == ReplyBytes(rp)
  IN  IF b.err # "none" THEN Outcome(b.err, obj)
      ELSE IF b.s \notin JsonValid THEN Outcome("invalid json", obj)
      ELSE Outcome("none", <<"json", b.s>>)

\* Struct: redis.Values, then redis.ScanStruct(result, obj) over name/value pairs.
ReplyStruct(rp, obj) ==
  LET v == ReplyStrings(rp)
  IN  IF v.err # "none" THEN Outcome(v.err, obj)
      ELSE IF Len(v.l) % 2 # 0 THEN Outcome("odd number of values", obj)
      ELSE Outcome("none", <<"scan">> \o v.l)

Accessors == {"String", "Float64", "Int64", "Int", "Bool", "Strings", "Bytes",
              "Unmarshal", "Struct"}

\* What accessor `acc` returns for the Reply, and the caller's object afterwards.
Access(acc, rp, obj) ==
  CASE acc = "String"    -> [out |-> ReplyString(rp),  obj |-> obj]
    [] acc = "Float64"   -> [out |-> ReplyFloat64(rp), obj |-> obj]
    [] acc = "Int64"     -> [out |-> ReplyInt64(rp),   obj |-> obj]
    [] acc = "Int"       -> [out |-> ReplyInt(rp),     obj |-> obj]
    [] acc = "Bool"      -> [out |-> ReplyBool(rp),    obj |-> obj]
    [] acc = "Strings"   -> [out |-> ReplyStrings(rp), obj |-> obj]
    [] acc = "Bytes"     -> [out |-> ReplyBytes(rp),   obj |-> obj]
    [] acc = "Unmarshal" -> [out |-> Zero(ReplyUnmarshal(rp, obj).err),
                             obj |-> ReplyUnmarshal(rp, obj).obj]
    [] acc = "Struct"    -> [out |-> Zero(ReplyStruct(rp, obj).err),
                             obj |-> ReplyStruct(rp, obj).obj]

\* ------------------------------------------------- typed operations
Op(name, key, s, n) == [name |-> name, key |-> key, s |-> s, n |-> n]
NoOp == Op("", "", "", 0)

AllOps ==
  {Op("Ping", "", "", 0)}
  \cup {Op(nm, k, "", 0) : nm \in {"Exists", "TTL", "Get", "Del"}, k \in Keys}
  \cup {Op("Expire", k, "", n) : k \in Keys, n \in ExpireArgs}
  \cup {Op(nm, k, v, 0) : nm \in {"Set", "SetNoExpire"}, k \in Keys, v \in Vals}
  \cup {Op("SetWithExpire", k, v, n) : k \in Keys, v \in Vals, n \in ExpireArgs}

\* The workload of concurrent callers: reads and the two plain writes.
ConcurrentOps ==
  {Op("Get", k, "", 0) : k \in Keys}
  \cup {Op("Set", k, "a", 0) : k \in Keys}
  \cup {Op("SetNoExpire", k, "b", 0) : k \in Keys}

\* The workload on sets and hashes, with the string writes that also apply an
\* expiry.
CollectionOps ==
  {Op("SAdd", k, "a", 0) : k \in Keys}
  \cup {Op("SAddWithExpire", k, "a", n) : k \in Keys, n \in ExpireArgs}
  \cup {Op("SAddNoExpire", k, "a", 0) : k \in Keys}
  \cup {Op(nm, k, o, 0) : nm \in {"HSet", "HSetNoExpire"}, k \in Keys, o \in Structs}
  \cup {Op("HSetWithExpire", k, o, 60) : k \in Keys, o \in Structs}
  \cup {Op("Set", k, "a", 0) : k \in Keys}
  \cup {Op("SetWithExpire", k, "a", 60) : k \in Keys}

\* ------------------------------------------------- values handed to Set*
\* A Go value: a string, an int, a bool, a byte slice or a struct.
Value(type, s, n, b) == [type |-> type, s |-> s, n |-> n, b |-> b]
NoValue == Value("", "", 0, FALSE)
GivenValues ==
  {Value("string", x, 0, FALSE) : x \in {"a"}}
  \cup {Value("int", "", x, FALSE) : x \in {7}}
  \cup {Value("bool", "", 0, x) : x \in BOOLEAN}
  \cup {Value("bytes", x, 0, FALSE) : x \in {"7"}}
  \cup {Value("struct", x, 0, FALSE) : x \in Structs}

\* strconv.AppendInt(.., n, 10) on the integers of this model
IntText == [n \in {0, 1, 7} |-> CASE n = 0 -> "0" [] n = 1 -> "1" [] n = 7 -> "7"]
\* json.Marshal of the structs of this model, and the struct json.Unmarshal
\* builds from a text
JsonMarshal == [o \in Structs |-> "{\"X\":1,\"Y\":\"z\"}"]
JsonObject == [t \in {"{\"X\":1,\"Y\":\"z\"}"} |-> "p"]

\* How the command argument goes on the wire: strings and bytes as they are,
\* integers in decimal, booleans as "1" and "0".
WriteArg(v) ==
  CASE v.type \in {"string", "bytes"} -> v.s
    [] v.type = "int" -> IntText[v.n]
    [] v.type = "bool" -> IF v.b THEN "1" ELSE "0"

StoreNames == {"Set", "SetNoExpire", "SetWithExpire"}
StructStoreNames == {"SetStruct", "SetStructNoExpire", "SetStructWithExpire"}

\* What a caller does with the value v and the expire argument n: store v
\* under a key, read the key.
RoundOps(v, n) ==
  {Op("Get", k, "", 0) : k \in Keys}
  \cup (IF v.type = "struct"
        THEN {Op(nm, k, v.s, 0) : nm \in {"SetStruct", "SetStructNoExpire"}, k \in Keys}
             \cup {Op("SetStructWithExpire", k, v.s, n) : k \in Keys}
        ELSE {Op(nm, k, WriteArg(v), 0) : nm \in {"Set", "SetNoExpire"}, k \in Keys}
             \cup {Op("SetWithExpire", k, WriteArg(v), n) : k \in Keys})

AllRoundOps == UNION {RoundOps(v, n) : v \in GivenValues, n \in ExpireArgs}

Ops == AllOps \cup CollectionOps \cup AllRoundOps

\* r.Expire(ctx, key, expire)
ExpireCmd(key, expire) == Cmd("EXPIRE", key, "", expire)

\* The commands a typed operation hands to Do, in order.
SetCommands(o) == <<Cmd("SET", o.key, o.s, 0), ExpireCmd(o.key, DefaultExpire)>>
SetWithExpireCommands(o) == <<Cmd("SET", o.key, o.s, 0), ExpireCmd(o.key, o.n)>>
\* (a SetNoExpire that applies the default expiry like Set)
SetNoExpireDefaulted(o) == <<Cmd("SET", o.key, o.s, 0), ExpireCmd(o.key, DefaultExpire)>>
SetNoExpireCommands(o) == <<Cmd("SET", o.key, o.s, 0)>>

\* args := stringToInterface(key, values...); r.Do(ctx, "SADD", args...)
SAddCommands(o) == <<Cmd("SADD", o.key, o.s, 0), ExpireCmd(o.key, DefaultExpire)>>
\* (a SAddWithExpire that applies its expire argument)
SAddWithExpireApplied(o) == <<Cmd("SADD", o.key, o.s, 0), ExpireCmd(o.key, o.n)>>
SAddWithExpireCommands(o) == <<Cmd("SADD", o.key, o.s, 0)>>
SAddNoExpireCommands(o) == <<Cmd("SADD", o.key, o.s, 0)>>
\* r.Do(ctx, "HMSET", redis.Args{}.Add(name).AddFlat(obj)...)
HSetCommands(o) == <<Cmd("HMSET", o.key, o.s, 0), ExpireCmd(o.key, DefaultExpire)>>
HSetWithExpireCommands(o) == <<Cmd("HMSET", o.key, o.s, 0), ExpireCmd(o.key, o.n)>>
HSetNoExpireCommands(o) == <<Cmd("HMSET", o.key, o.s, 0)>>
\* jsonValue, err := json.Marshal(value); return r.Set(ctx, key, jsonValue)
Marshalled(o) == [o EXCEPT !.s = JsonMarshal[o.s]]
\* (a SetStruct that stores the value without json.Marshal)
SetStructRaw(o) == SetCommands(o)
SetStructCommands(o) == SetCommands(Marshalled(o))
SetStructWithExpireCommands(o) == SetWithExpireCommands(Marshalled(o))
SetStructNoExpireCommands(o) == SetNoExpireCommands(Marshalled(o))

OpCommands(o) ==
  CASE o.name = "Ping"          -> <<Cmd("PING", "", "", 0)>>
    [] o.name = "Exists"        -> <<Cmd("EXISTS", o.key, "", 0)>>
    [] o.name = "TTL"           -> <<Cmd("TTL", o.key, "", 0)>>
    [] o.name = "Expire"        -> <<ExpireCmd(o.key, o.n)>>
    [] o.name = "Get"           -> <<Cmd("GET", o.key, "", 0)>>
    [] o.name = "Del"           -> <<Cmd("DEL", o.key, "", 0)>>
    [] o.name = "Set"           -> SetCommands(o)
    [] o.name = "SetWithExpire" -> SetWithExpireCommands(o)
    [] o.name = "SetNoExpire"   -> SetNoExpireCommands(o)
    [] o.name = "SAdd"           -> SAddCommands(o)
    [] o.name = "SAddWithExpire" -> SAddWithExpireCommands(o)
    [] o.name = "SAddNoExpire"   -> SAddNoExpireCommands(o)
    [] o.name = "HSet"           -> HSetCommands(o)
    [] o.name = "HSetWithExpire" -> HSetWithExpireCommands(o)
    [] o.name = "HSetNoExpire"   -> HSetNoExpireCommands(o)
    [] o.name = "SetStruct"           -> SetStructCommands(o)
    [] o.name = "SetStructWithExpire" -> SetStructWithExpireCommands(o)
    [] o.name = "SetStructNoExpire"   -> SetStructNoExpireCommands(o)

\* What a typed operation returns: the Reply of its first Do, or for Ping and
\* Exists the decoded value and an error.
Return(rp, b, err) == [reply |-> rp, b |-> b, err |-> err]
NoReturn == Return(NoReply, FALSE, NoError)

PingReturn(rp, addr) ==
  LET d == ReplyString(rp)
  IN  IF d.err # "none" \/ d.s # "PONG"
      THEN Return(NoReply, FALSE, FailedConnect(addr, d.err))
      ELSE Return(NoReply, FALSE, NoError)

\* (an Exists that reports an absent key as an error)
ExistsErrOnAbsent(rp, addr) ==
  LET d == ReplyInt(rp)
  IN  IF d.err # "none" \/ d.n = 0
      THEN Return(NoReply, FALSE, FailedConnect(addr, d.err))
      ELSE Return(NoReply, d.n = 1, NoError)

ExistsReturn(rp, addr) ==
  LET d == ReplyInt(rp)
  IN  IF d.err # "none"
      THEN Return(NoReply, FALSE, FailedConnect(addr, d.err))
      ELSE Return(NoReply, d.n = 1, NoError)

OpReturn(o, rp, addr) ==
  CASE o.name = "Ping"   -> PingReturn(rp, addr)
    [] o.name = "Exists" -> ExistsReturn(rp, addr)
    [] OTHER             -> Return(rp, FALSE, NoError)


\* ------------------------------------------------------------- state
\* ------------------------------------------------- HTTP request
\* strings.ToUpper and strings.ToLower on the strings of this model
Methods == {"get", "GET", "post", "Put", "options", ""}
ToUpper == [m \in Methods |->
              CASE m \in {"get", "GET"} -> "GET" [] m = "post" -> "POST"
                [] m = "Put" -> "PUT" [] m = "options" -> "OPTIONS" [] m = "" -> ""]
HeaderKeys == {"Content-Type", "content-type", "Accept"}
ToLower == [k \in HeaderKeys |->
              CASE k \in {"Content-Type", "content-type"} -> "content-type"
                [] k = "Accept" -> "accept"]
HeaderValues == {"multipart/form-data", "application/json"}
FormUrlEncoded == "application/x-www-form-urlencoded"
\* strings.HasPrefix(value, "multipart")
HasPrefixMultipart(v) == v = "multipart/form-data"

\* url.Parse(rq.url) fails on the second
Urls == {"http://h/p", "http://h/%zz"}
UrlParseError(u) == IF u = "http://h/%zz" THEN "invalid URL escape" ELSE "nil"

isValidMethod(method) == method \in {"GET", "HEAD", "POST", "PUT", "PATCH", "DELETE"}

\* A file handed to AddFile can be read, fails when read, or has been closed.
FileStates == {"open", "broken", "closed"}
NoFile == "none"

HttpRequest(made, method, url, headers, params, file, body, multipart) ==
  [made |-> made, method |-> method, url |-> url, headers |-> headers,
   params |-> params, file |-> file, body |-> body, multipart |-> multipart]
NoHeaders == [k \in HeaderKeys |-> ""]
NoRequest == HttpRequest(FALSE, "", "", NoHeaders, {}, NoFile, "", FALSE)

\* rq.headers[key] = value, and the multipart flag follows Content-Type
WithHeader(r, key, value) ==
  [r EXCEPT !.headers[key] = value,
            !.multipart = IF ToLower[key] = "content-type"
                          THEN HasPrefixMultipart(value) ELSE @]

Built(request, r, err) == [request |-> request, rq |-> r, err |-> err]

\* setImageParams: every file is closed when it returns; the Content-Type
\* header is set once the form is written.
setImageParams(r) ==
  LET closed == [r EXCEPT !.file = IF @ = NoFile THEN @ ELSE "closed"]
  IN  IF r.file \in {"broken", "closed"}
      THEN Built(FALSE, closed, "Failed to copy file to writer")
      ELSE Built(TRUE, WithHeader(closed, "Content-Type", "multipart/form-data"), "nil")

setQueryParams(r) == Built(TRUE, r, "nil")

setBodyParams(r) ==
  IF r.file # NoFile \/ r.multipart THEN setImageParams(r)
  ELSE IF r.body # "" THEN Built(TRUE, r, "nil")
  ELSE Built(TRUE, WithHeader(r, "Content-Type", FormUrlEncoded), "nil")

\* What Do returns (a response or nil, an error or nil) and the request after it.
Result(called, response, err) == [called |-> called, response |-> response, err |-> err]
NoResult == Result(FALSE, "nil", "nil")
DoReturn(r, result) == [rq |-> r, ret |-> result]

\* HttpRequest.Do; sent is what rq.client.Do returns, read what ioutil.ReadAll
\* returns.
HttpDo(r, sent, read) ==
  IF UrlParseError(r.url) # "nil"
  THEN DoReturn(r, Result(TRUE, "nil", UrlParseError(r.url)))
  ELSE IF ~isValidMethod(r.method)
  THEN DoReturn(r, Result(TRUE, "nil", UrlParseError(r.url)))
  ELSE LET b == IF r.method = "GET" THEN setQueryParams(r) ELSE setBodyParams(r)
       IN  IF b.err # "nil" THEN DoReturn(b.rq, Result(TRUE, "nil", b.err))
           ELSE IF sent # "nil" THEN DoReturn(b.rq, Result(TRUE, "nil", sent))
           ELSE IF read # "nil" THEN DoReturn(b.rq, Result(TRUE, "nil", read))
           ELSE DoReturn(b.rq, Result(TRUE, "response", "nil"))

VARIABLES
  client,      \* what ConnectRedis returned: "none" (not called), "ok", "nil"
  connectErr,  \* the error ConnectRedis returned
  config,      \* the RedisConfig handed to ConnectRedis
  bootConn,    \* conn of ConnectRedis: "none", "real", "error" (errorConn)
  bootReply,   \* what the startup PING answered
  inUse,       \* connections borrowed from the pool
  store,       \* the remote store
  ncallers,    \* callers sharing the client
  menu,        \* the operations the callers invoke
  pc,          \* per caller: "idle", "get", "exec", "close"
  cur,         \* per caller: the typed operation, which Do of it, commands sent
  conn,        \* per caller: conn of Do: "none", "real", "error"
  reply,       \* per caller: the Reply of the Do in progress
  first,       \* per caller: result of the first Do of Set / SetWithExpire
  ret,         \* per caller: what the last typed operation returned
  seen,        \* per caller: the key as the operation's first command found it
  wire,        \* per caller: the errors conn.DoWithTimeout returned to Do
  left,        \* per caller: operations still to invoke
  prev,        \* per caller: the operation before the last one and whether it failed
  rp,          \* a Reply in a caller's hands
  target,      \* the object the caller passes to Unmarshal / Struct
  dec,         \* the last accessor called on rp, what it returned, the object before
  given,       \* the value the caller stores and reads back
  rq,          \* the HttpRequest under construction
  httpRet      \* what HttpRequest.Do returned last

vars == <<client, connectErr, config, bootConn, bootReply, inUse, store, ncallers,
          menu, pc, cur, conn, reply, first, ret, seen, wire, left, prev,
          rp, target, dec, given, rq, httpRet>>

poolVars   == <<inUse>>
clientVars == <<client, connectErr, config, bootConn, bootReply, ncallers, menu>>
decodeVars == <<rp, target, dec, given>>
httpVars   == <<rq, httpRet>>

Configs == [addr : Addrs, maxActive : 0..MaxCap]
NoConfig == [addr |-> "", maxActive |-> 0]

Current(o, step, sent) == [op |-> o, step |-> step, sent |-> sent]
Previous(o, failed, found) ==
  [name |-> o.name, key |-> o.key, failed |-> failed, seen |-> found]

\* How a command finds its key: "absent", "persistent" or "volatile" (with a TTL).
KeyState(r) == IF ~r.present THEN "absent"
               ELSE IF r.ttl = NoTTL THEN "persistent" ELSE "volatile"

\* The error of the operation's first command, of the command in progress, and
\* of the follow-up EXPIRE ("" while none has run).
Wire(primary, last, side) == [primary |-> primary, last |-> last, side |-> side]

\* The stores a client can find at the remote endpoint.
Stores ==
  [Keys -> {AbsentKey}
           \cup {StringKey("a", t) : t \in {NoTTL, 60}}]

NoDecode == [acc |-> "", out |-> Zero("none"), before |-> <<>>]

\* The stores of the workload on sets and hashes.
CollectionStores ==
  [Keys -> {AbsentKey, StringKey("a", NoTTL)}
           \cup {SetKey({"b"}, t) : t \in {NoTTL, 60}}
           \cup {HashKey({<<"X", "0">>}, t) : t \in {NoTTL, 60}}]

\* Before ConnectRedis: no client, no caller in an operation.
InitCallers ==
  /\ client = "none" /\ connectErr = NoError /\ config = NoConfig
  /\ bootConn = "none" /\ bootReply = "" /\ inUse = 0
  /\ pc = [c \in Callers |-> "idle"]
  /\ cur = [c \in Callers |-> Current(NoOp, 0, 0)]
  /\ conn = [c \in Callers |-> "none"]
  /\ reply = [c \in Callers |-> NoReply]
  /\ first = [c \in Callers |-> NoReply]
  /\ ret = [c \in Callers |-> NoReturn]
  /\ seen = [c \in Callers |-> ""]
  /\ wire = [c \in Callers |-> Wire("", "", "")]
  /\ prev = [c \in Callers |-> Previous(NoOp, FALSE, "")]

InitClient ==
  /\ InitCallers
  /\ store \in Stores
  /\ \/ ncallers = 1 /\ menu = AllOps /\ left = [c \in Callers |-> IF c = 1 THEN MaxOps ELSE 0]
     \/ ncallers = 2 /\ menu = ConcurrentOps
        /\ left = [c \in Callers |-> IF c <= ncallers THEN 1 ELSE 0]

Init ==
  /\ InitClient /\ rp = NoReply /\ target = <<>> /\ dec = NoDecode /\ given = NoValue
  /\ rq = NoRequest /\ httpRet = NoResult

\* One caller working on sets and hashes.
InitCollections ==
  /\ InitCallers
  /\ store \in CollectionStores
  /\ ncallers = 1 /\ menu = CollectionOps
  /\ left = [c \in Callers |-> IF c = 1 THEN MaxOps ELSE 0]
  /\ rp = NoReply /\ target = <<>> /\ dec = NoDecode /\ given = NoValue
  /\ rq = NoRequest /\ httpRet = NoResult

\* The key is absent, or holds another value about to expire.
RoundStores == [Keys -> {AbsentKey, StringKey("b", 60)}]

\* One caller with a value to store and read back.
InitRound ==
  /\ InitCallers
  /\ store \in RoundStores
  /\ given \in GivenValues
  /\ ncallers = 1 /\ \E n \in ExpireArgs : menu = RoundOps(given, n)
  /\ left = [c \in Callers |-> IF c = 1 THEN MaxOps ELSE 0]
  /\ rp = NoReply /\ target = <<>> /\ dec = NoDecode
  /\ rq = NoRequest /\ httpRet = NoResult

\* ------------------------------------------------------- ConnectRedis
\* if err != nil { return nil, ... }; return &Redis{...}, nil: the value the
\* PING answered is discarded.
ConnectHandle(err, pong) == IF err # "none" THEN "nil" ELSE "ok"

\* conn.Close() is never called on the connection of the startup PING.
ConnectRedis(cfg, dial, out, pong) ==
  /\ client = "none"
  /\ config' = cfg
  /\ LET err == IF dial = "fail" THEN "dial" ELSE out
         got == IF err = "none" THEN pong ELSE ""
     IN  /\ bootConn' = IF dial = "fail" THEN "error" ELSE "real"
         /\ inUse' = IF dial = "fail" THEN inUse ELSE inUse + 1
         /\ bootReply' = got
         /\ client' = ConnectHandle(err, got)
         /\ connectErr' = IF err # "none" THEN FailedConnect(cfg.addr, err) ELSE NoError
  /\ UNCHANGED <<store, ncallers, menu, pc, cur, conn, reply, first, ret, seen, wire,
                 left, prev, decodeVars, httpVars>>

\* ---------------------------------------------------------- Redis.Do
\* Pool{Wait: true, MaxActive: config.MaxActive}: Get waits while MaxActive > 0
\* connections are borrowed.
\* (a pool that never makes Get wait)
SlotAlways(n, maxActive) == TRUE
SlotAvailable(n, maxActive) == maxActive = 0 \/ n < maxActive

\* A caller invokes a typed operation, which enters Do: r.getConnection().
StartOp(c, o) ==
  /\ client = "ok" /\ c <= ncallers /\ pc[c] = "idle" /\ left[c] > 0
  /\ o \in menu
  /\ prev' = [prev EXCEPT ![c] =
                Previous(cur[c].op, ret[c].reply.error # "none" \/ ret[c].err.set,
                         seen[c])]
  /\ cur' = [cur EXCEPT ![c] = Current(o, 1, 0)]
  /\ pc' = [pc EXCEPT ![c] = "get"]
  /\ ret' = [ret EXCEPT ![c] = NoReturn]
  /\ seen' = [seen EXCEPT ![c] = ""]
  /\ wire' = [wire EXCEPT ![c] = Wire("", "", "")]
  /\ UNCHANGED <<clientVars, poolVars, store, conn, reply, first, left, decodeVars, httpVars>>

\* r.pool.Get(): a connection (idle or dialled), or an errorConn when the dial fails.
PoolGet(c) ==
  /\ pc[c] = "get"
  /\ SlotAvailable(inUse, config.maxActive)
  /\ \/ conn' = [conn EXCEPT ![c] = "real"] /\ inUse' = inUse + 1
     \/ conn' = [conn EXCEPT ![c] = "error"] /\ inUse' = inUse
  /\ pc' = [pc EXCEPT ![c] = "exec"]
  /\ UNCHANGED <<clientVars, store, cur, reply, first, ret, seen, wire, left, prev,
                 decodeVars, httpVars>>

\* conn.DoWithTimeout(r.timeout, command, args...): answered, refused with a
\* protocol error, or timed out (the store may or may not have run the command).
Outcomes == {"none", "protocol error", "i/o timeout"}

DoWithTimeout(c, out, applied, pong) ==
  /\ pc[c] = "exec"
  /\ LET cmd == OpCommands(cur[c].op)[cur[c].step]
         err == IF conn[c] = "error" THEN "dial" ELSE out
     IN  /\ wire' = [wire EXCEPT ![c] =
                       Wire(IF cur[c].step = 1 THEN err ELSE @.primary, err,
                            IF cur[c].step = 1 THEN "" ELSE err)]
         /\ \/ /\ conn[c] = "error"
               /\ out = "none" /\ applied = FALSE /\ pong = "PONG"
               /\ reply' = [reply EXCEPT ![c] = DoReply(NilValue, "dial")]
               /\ store' = store
               /\ cur' = cur
            \/ /\ conn[c] = "real"
               /\ out = "none" => (applied /\ ~WrongType(store, cmd))
               /\ out = "protocol error" => ~applied
               /\ (out # "none" \/ cmd.name # "PING") => pong = "PONG"
               /\ reply' = [reply EXCEPT ![c] =
                    DoReply(IF out = "none" THEN ServerResult(store, cmd, pong)
                            ELSE IF out = "protocol error" THEN ErrValue ELSE NilValue,
                            out)]
               /\ store' = IF applied /\ ~WrongType(store, cmd)
                           THEN ServerStore(store, cmd) ELSE store
               /\ cur' = [cur EXCEPT ![c].sent = @ + 1]
         /\ seen' = IF cur[c].step = 1 /\ cmd.key \in Keys
                    THEN [seen EXCEPT ![c] = KeyState(store[cmd.key])] ELSE seen
  /\ pc' = [pc EXCEPT ![c] = "close"]
  /\ UNCHANGED <<clientVars, poolVars, conn, first, ret, left, prev, decodeVars, httpVars>>

\* (a Do that closes the connection only after a command without error)
ReleaseUnlessError(n, cn, err) == IF cn = "real" /\ err = "none" THEN n - 1 ELSE n
\* defer conn.Close(): the connection goes back to the pool whatever the command
\* returned (Close of an errorConn does nothing).
Release(n, cn, err) == IF cn = "real" THEN n - 1 ELSE n

\* (a Set that returns the Reply of its EXPIRE)
OpResultLast(step, rep, fst) == rep
\* result := r.Do(...); r.Expire(...); return result
OpResult(step, rep, fst) == IF step = 1 THEN rep ELSE fst

\* Do returns; the typed operation either issues its EXPIRE or returns.
CloseAndReturn(c) ==
  /\ pc[c] = "close"
  /\ inUse' = Release(inUse, conn[c], reply[c].error)
  /\ conn' = [conn EXCEPT ![c] = "none"]
  /\ wire' = [wire EXCEPT ![c].last = ""]
  /\ IF cur[c].step < Len(OpCommands(cur[c].op))
     THEN /\ first' = [first EXCEPT ![c] = reply[c]]
          /\ cur' = [cur EXCEPT ![c].step = @ + 1]
          /\ reply' = [reply EXCEPT ![c] = NoReply]
          /\ pc' = [pc EXCEPT ![c] = "get"]
          /\ UNCHANGED <<ret, left>>
     ELSE /\ ret' = [ret EXCEPT ![c] =
                       OpReturn(cur[c].op, OpResult(cur[c].step, reply[c], first[c]),
                                config.addr)]
          /\ pc' = [pc EXCEPT ![c] = "idle"]
          /\ left' = [left EXCEPT ![c] = @ - 1]
          /\ reply' = [reply EXCEPT ![c] = NoReply]
          /\ first' = [first EXCEPT ![c] = NoReply]
          /\ UNCHANGED cur
  /\ UNCHANGED <<clientVars, store, seen, prev, decodeVars, httpVars>>

Next ==
  \/ \E cfg \in Configs, dial \in {"ok", "fail"}, out \in Outcomes, pong \in PingReplies :
       ConnectRedis(cfg, dial, out, pong)
  \/ \E c \in Callers, o \in Ops : StartOp(c, o)
  \/ \E c \in Callers : PoolGet(c)
  \/ \E c \in Callers, out \in Outcomes, applied \in BOOLEAN, pong \in PingReplies :
       DoWithTimeout(c, out, applied, pong)
  \/ \E c \in Callers : CloseAndReturn(c)

Spec == Init /\ [][Next]_vars

\* Every caller that can take a step eventually takes one; the remote endpoint
\* answers or times out every command.
CallerStep(c) ==
  \/ \E o \in Ops : StartOp(c, o)
  \/ PoolGet(c)
  \/ \E out \in Outcomes, applied \in BOOLEAN, pong \in PingReplies :
       DoWithTimeout(c, out, applied, pong)
  \/ CloseAndReturn(c)

FairSpec == Spec /\ \A c \in Callers : WF_vars(CallerStep(c))

SpecCollections == InitCollections /\ [][Next]_vars


\* ---------------------------------------------------- Reply accessors
\* The Replies Do and the SetStruct operations can build: a result without an
\* error, or an error with no result (a redis.Error for a protocol error).
ResultValues ==
  {NilValue, IntValue(0), IntValue(1), IntValue(7), StrValue("OK"),
   BulkValue("a"), BulkValue("1"), BulkValue("7"), BulkValue("1.5"), BulkValue("true"),
   ArrayValue(<<>>), ArrayValue(<<"X">>), ArrayValue(<<"X", "1">>)}
Replies ==
  {DoReply(v, "none") : v \in ResultValues}
  \cup {DoReply(NilValue, e) : e \in {"dial", "i/o timeout", "json: unsupported type"}}
  \cup {DoReply(ErrValue, "protocol error")}
Targets == {<<>>, <<"old">>}

InitDecode ==
  /\ InitClient /\ rp \in Replies /\ target \in Targets /\ dec = NoDecode
  /\ given = NoValue /\ rq = NoRequest /\ httpRet = NoResult

\* The caller calls one accessor of the Reply it holds.
Decode(acc) ==
  /\ dec' = [acc |-> acc, out |-> Access(acc, rp, target).out, before |-> target]
  /\ target' = Access(acc, rp, target).obj
  /\ UNCHANGED <<rp, given, clientVars, poolVars, store, pc, cur, conn, reply, first, ret,
                 seen, wire, left, prev, httpVars>>

NextDecode == \E acc \in Accessors : Decode(acc)

SpecDecode == InitDecode /\ [][NextDecode]_vars

\* The caller takes the Reply that Get returned and calls one accessor on it.
DecodeReturn(c, acc) ==
  /\ pc[c] = "idle" /\ cur[c].op.name = "Get" /\ dec = NoDecode
  /\ rp' = ret[c].reply
  /\ dec' = [acc |-> acc, out |-> Access(acc, rp', target).out, before |-> target]
  /\ target' = Access(acc, rp', target).obj
  /\ left' = [left EXCEPT ![c] = 0]
  /\ UNCHANGED <<given, clientVars, poolVars, store, pc, cur, conn, reply, first, ret,
                 seen, wire, prev, httpVars>>

NextRound == Next \/ \E c \in Callers, acc \in Accessors : DecodeReturn(c, acc)

SpecRound == InitRound /\ [][NextRound]_vars

\* ------------------------------------------------- HTTP request, actions
HttpUnchanged ==
  UNCHANGED <<clientVars, poolVars, store, pc, cur, conn, reply, first, ret, seen, wire,
              left, prev, decodeVars>>

NewHttpRequest(method, uri) ==
  /\ rq' = HttpRequest(TRUE, ToUpper[method], uri, NoHeaders, {}, NoFile, "", FALSE)
  /\ httpRet' = NoResult
  /\ HttpUnchanged

SetHeader(key, value) ==
  /\ rq.made /\ rq' = WithHeader(rq, key, value)
  /\ UNCHANGED httpRet /\ HttpUnchanged

SetBody(body) ==
  /\ rq.made /\ rq' = [rq EXCEPT !.body = body]
  /\ UNCHANGED httpRet /\ HttpUnchanged

SetParam(params) ==
  /\ rq.made /\ rq' = [rq EXCEPT !.params = params]
  /\ UNCHANGED httpRet /\ HttpUnchanged

AddParam(key) ==
  /\ rq.made /\ rq' = [rq EXCEPT !.params = @ \cup {key}]
  /\ UNCHANGED httpRet /\ HttpUnchanged

AddFile(value) ==
  /\ rq.made /\ rq' = [rq EXCEPT !.file = value]
  /\ UNCHANGED httpRet /\ HttpUnchanged

SendErrors == {"nil", "connection refused", "context deadline exceeded"}
ReadErrors == {"nil", "unexpected EOF"}

RequestDo(sent, read) ==
  /\ rq.made
  /\ rq' = HttpDo(rq, sent, read).rq
  /\ httpRet' = HttpDo(rq, sent, read).ret
  /\ HttpUnchanged

InitHttp ==
  /\ InitCallers
  /\ store = [k \in Keys |-> AbsentKey]
  /\ ncallers = 1 /\ menu = {} /\ left = [c \in Callers |-> 0]
  /\ rp = NoReply /\ target = <<>> /\ dec = NoDecode /\ given = NoValue
  /\ rq = NoRequest /\ httpRet = NoResult

NextHttp ==
  \/ \E method \in Methods, uri \in Urls : NewHttpRequest(method, uri)
  \/ \E key \in HeaderKeys, value \in HeaderValues : SetHeader(key, value)
  \/ \E body \in {"", "b"} : SetBody(body)
  \/ \E params \in SUBSET {"q"} : SetParam(params)
  \/ \E key \in {"q", "r"} : AddParam(key)
  \/ \E value \in FileStates \ {"closed"} : AddFile(value)
  \/ \E sent \in SendErrors, read \in ReadErrors : RequestDo(sent, read)

SpecHttp == InitHttp /\ [][NextHttp]_vars

\* ------------------------------------------------------------ claims
BootHeld == IF bootConn = "real" THEN 1 ELSE 0
Borrowers == {c \in Callers : conn[c] = "real"}
Finished(c) == pc[c] = "idle" /\ cur[c].op # NoOp
TransportErrors == {"dial", "protocol error", "i/o timeout"}

\* C1: every Do holds one connection while its command runs and has returned it
\* when it returns, on every path; the connections borrowed by callers are
\* exactly those of the Do calls in progress, and a lone caller that has
\* completed a Do finds a free slot at its next acquire.
C1_DoReleasesConnection ==
  /\ inUse = BootHeld + Cardinality(Borrowers)
  /\ \A c \in Callers :
       /\ pc[c] \in {"idle", "get"} => conn[c] = "none"
       /\ pc[c] \in {"exec", "close"} => conn[c] # "none"
       /\ (ncallers = 1 /\ pc[c] = "get" /\ (cur[c].step = 2 \/ left[c] < MaxOps))
            => (config.maxActive = 0 \/ inUse < config.maxActive)

\* A lone caller holds a connection for EXPIRE right after its SET timed out.
C1_Witness ==
  \E c \in Callers :
    /\ ncallers = 1 /\ pc[c] = "exec" /\ conn[c] = "real" /\ cur[c].step = 2
    /\ first[c].error = "i/o timeout" /\ inUse = BootHeld + 1

\* C2: with a client returned by ConnectRedis, every caller completes all the
\* operations it invokes, whatever MaxActive >= 1 is.
C2_AllComplete ==
  (client = "ok") ~> (\A c \in Callers : pc[c] = "idle" /\ left[c] = 0)

\* C3: no more than MaxActive connections are in use at a time (MaxActive > 0);
\* a caller that finds every slot in use stays waiting in Get and gets no
\* pool-exhaustion error, and a caller leaves Get only when a slot is free.
C3_PoolBounded ==
  /\ [](config.maxActive > 0 => inUse <= config.maxActive)
  /\ [](\A c \in Callers : reply[c].error \in TransportErrors \cup {"none"})
  /\ [][\A c \in Callers :
          (pc[c] = "get" /\ pc'[c] # "get")
            => (config.maxActive = 0 \/ inUse < config.maxActive)]_vars

\* One caller waits in Get while the other holds the last slot.
C3_Witness ==
  \E c, d \in Callers :
    /\ pc[c] = "get" /\ conn[d] = "real"
    /\ config.maxActive > 0 /\ inUse = config.maxActive

\* C4: ConnectRedis returns a handle only when the startup PING answered PONG;
\* otherwise it returns nil and an error with the endpoint and the cause.
C4_ConnectChecksHealth ==
  /\ client = "ok" => (bootConn = "real" /\ bootReply = "PONG" /\ ~connectErr.set)
  /\ client = "nil" => (connectErr.set /\ connectErr.addr = config.addr
                        /\ connectErr.cause \in TransportErrors)

\* C5: the error of a command is stored in the Reply that Do returns and in the
\* Reply of the typed operation whose primary command it was; the caller goes
\* on, and no Do sends its command more than once.
C5_ErrorInReply ==
  \A c \in Callers :
    /\ pc[c] = "close" => reply[c].error = wire[c].last
    /\ (Finished(c) /\ cur[c].op.name \notin {"Ping", "Exists"})
         => (ret[c].reply.error = wire[c].primary /\ ReplyError(ret[c].reply) = wire[c].primary)
    /\ cur[c].sent <= cur[c].step

\* A typed operation returned a Reply carrying the time-out of its one command.
C5_Witness ==
  \E c \in Callers :
    /\ Finished(c) /\ cur[c].op.name = "Get" /\ cur[c].sent = 1
    /\ wire[c].primary = "i/o timeout" /\ ret[c].reply.error = "i/o timeout"

\* The last two operations of the lone caller: `a` on a key, then `b` on it.
Sequence(c, a, b) ==
  /\ ncallers = 1 /\ Finished(c)
  /\ prev[c].name = a /\ ~prev[c].failed
  /\ cur[c].op.name = b /\ cur[c].op.key = prev[c].key
  /\ ret[c].reply.error = "none" /\ ~ret[c].err.set

\* C6: after a successful Set, TTL of the key answers t with 0 < t <= 900.
C6_SetThenTTL ==
  \A c \in Callers :
    Sequence(c, "Set", "TTL") =>
      (ReplyInt(ret[c].reply).err = "none" /\ ReplyInt(ret[c].reply).n \in 1..DefaultExpire)

\* C7: after a successful SetNoExpire, TTL of the key answers "no expiry",
\* whatever the key held before.
C7_SetNoExpireThenTTL ==
  \A c \in Callers :
    Sequence(c, "SetNoExpire", "TTL") =>
      (ReplyInt(ret[c].reply).err = "none" /\ ReplyInt(ret[c].reply).n = NoTTL)

\* SetNoExpire overwrote a key that carried a TTL, and TTL then answered.
C7_Witness ==
  \E c \in Callers :
    /\ Sequence(c, "SetNoExpire", "TTL") /\ prev[c].seen = "volatile"
    /\ ret[c].reply.result = IntValue(NoTTL)

\* C8: Exists on an answered command returns (present, nil): false and no error
\* for an absent key, true exactly for a present one; it returns an error only
\* when the command itself failed.
C8_ExistsTranslatesAbsence ==
  \A c \in Callers :
    (Finished(c) /\ cur[c].op.name = "Exists") =>
      /\ ret[c].err.set <=> wire[c].primary # "none"
      /\ ret[c].err.set => ~ret[c].b
      /\ ~ret[c].err.set => (ret[c].b <=> seen[c] # "absent")

\* Exists after a successful Del of the key returned (false, nil).
C8_Witness ==
  \E c \in Callers :
    /\ Sequence(c, "Del", "Exists") /\ prev[c].seen # "absent"
    /\ seen[c] = "absent" /\ ~ret[c].b

\* C9: Get of an absent key returns a Reply without error whose String() fails
\* with ErrorNil, which is none of the transport errors; Get of a present key
\* decodes without error.
C9_GetAbsentIsErrorNil ==
  /\ ErrorNil \notin TransportErrors
  /\ \A c \in Callers :
       (Finished(c) /\ cur[c].op.name = "Get" /\ wire[c].primary = "none") =>
         /\ ret[c].reply.error = "none"
         /\ seen[c] = "absent" =>
              (ReplyString(ret[c].reply).err = ErrorNil /\ ReplyString(ret[c].reply).s = "")
         /\ seen[c] # "absent" => ReplyString(ret[c].reply).err = "none"

\* Get right after a successful Del of a key that existed.
C9_Witness ==
  \E c \in Callers :
    /\ Sequence(c, "Del", "Get") /\ prev[c].seen # "absent" /\ seen[c] = "absent"
    /\ ReplyString(ret[c].reply).err = ErrorNil


\* C10: an accessor called on a Reply that carries an error returns that error
\* with a zero value and leaves the caller's object as it was; no accessor
\* changes the Reply, sends a command or touches the pool, and calling the same
\* accessor again returns the same.
C10_DecodeSurfacesStoredError ==
  /\ []((dec.acc # "" /\ rp.error # "none")
          => (dec.out = Zero(rp.error) /\ target = dec.before))
  /\ [][rp' = rp /\ UNCHANGED <<inUse, store, pc, conn, cur, wire>>]_vars
  /\ [][(dec.acc # "" /\ dec'.acc = dec.acc) => dec'.out = dec.out]_vars

\* Unmarshal was called with a filled object on a Reply carrying a time-out.
C10_Witness ==
  /\ dec.acc = "Unmarshal" /\ rp.error = "i/o timeout"
  /\ dec.before = <<"old">> /\ target = <<"old">> /\ dec.out.err = "i/o timeout"


\* C14: when ConnectRedis has returned a client and no Do is in progress, no
\* connection is borrowed from the pool.
C14_ConnectLeavesNoneBorrowed ==
  (client = "ok" /\ \A c \in Callers : conn[c] = "none") => inUse = 0

\* Both callers are done, one with Set and one with SetNoExpire on the same
\* key, and every command of both was answered without error.
BothWrote(c, d) ==
  /\ ncallers = 2 /\ c # d /\ Finished(c) /\ Finished(d)
  /\ cur[c].op.name = "Set" /\ cur[d].op.name = "SetNoExpire"
  /\ cur[c].op.key = cur[d].op.key
  /\ wire[c].primary = "none" /\ wire[c].side = "none" /\ wire[d].primary = "none"

\* C15: after a Set(key, v) and a SetNoExpire(key, w) that ran concurrently the
\* key holds v with a TTL of 900 or w without expiry.
C15_ConcurrentSetsAtomic ==
  \A c, d \in Callers :
    BothWrote(c, d) =>
      LET r == store[cur[c].op.key]
      IN  \/ r = StringKey(cur[c].op.s, DefaultExpire)
          \/ r = StringKey(cur[d].op.s, NoTTL)


\* C11: of the set-add entry points only SAdd issues an EXPIRE (key, 900) after
\* its SADD; SAddWithExpire and SAddNoExpire issue SADD alone, and no command
\* of theirs changes the TTL of the key.
C11_OnlySAddExpires ==
  /\ [](\A c \in Callers :
          /\ (Finished(c) /\ cur[c].op.name \in {"SAddWithExpire", "SAddNoExpire"})
               => (wire[c].side = "" /\ cur[c].sent <= 1)
          /\ (Finished(c) /\ cur[c].op.name = "SAdd")
               => /\ wire[c].side # ""
                  /\ (wire[c].primary = "none" /\ wire[c].side = "none")
                       => /\ store[cur[c].op.key].kind = "set"
                          /\ store[cur[c].op.key].ttl = DefaultExpire)
  /\ [][\A c \in Callers :
          (pc[c] = "exec" /\ cur[c].op.name \in {"SAddWithExpire", "SAddNoExpire"})
            => store'[cur[c].op.key].ttl = store[cur[c].op.key].ttl]_vars

\* SAddWithExpire(key, 60, "a") added its member and the key has no TTL.
C11_Witness ==
  \E c \in Callers :
    /\ Finished(c) /\ cur[c].op.name = "SAddWithExpire" /\ cur[c].op.n = 60
    /\ wire[c].primary = "none" /\ "a" \in store[cur[c].op.key].members
    /\ store[cur[c].op.key].ttl = NoTTL

WithSideExpire == {"Set", "SetWithExpire", "SAdd", "HSet", "HSetWithExpire"}

\* C12: Set, SetWithExpire, SAdd, HSet and HSetWithExpire return the Reply of
\* their primary command: its error, whatever the follow-up EXPIRE returned.
C12_ExpireFailureNotSurfaced ==
  \A c \in Callers :
    (Finished(c) /\ cur[c].op.name \in WithSideExpire) =>
      /\ ret[c].reply.error = wire[c].primary
      /\ (wire[c].primary = "none" /\ cur[c].op.name # "SAdd")
           => ret[c].reply.result = StrValue("OK")
      /\ (wire[c].primary = "none" /\ cur[c].op.name = "SAdd")
           => ret[c].reply.result.t = "int"

\* HSet reported success, its EXPIRE timed out, and the hash has no TTL.
C12_Witness ==
  \E c \in Callers :
    /\ Finished(c) /\ cur[c].op.name = "HSet"
    /\ ret[c].reply = DoReply(StrValue("OK"), "none")
    /\ wire[c].side = "i/o timeout"
    /\ store[cur[c].op.key].kind = "hash" /\ store[cur[c].op.key].ttl = NoTTL


\* The accessors that match the type of a value, and what it is to get it back.
Matching(v) ==
  CASE v.type = "string" -> {"String"}
    [] v.type = "int"    -> {"Int", "Int64"}
    [] v.type = "bool"   -> {"Bool"}
    [] v.type = "bytes"  -> {"Bytes"}
    [] v.type = "struct" -> {"Unmarshal"}
Yields(v, d, obj) ==
  /\ d.out.err = "none"
  /\ CASE v.type \in {"string", "bytes"} -> d.out.s = v.s
       [] v.type = "int"    -> d.out.n = v.n
       [] v.type = "bool"   -> d.out.b = v.b
       [] v.type = "struct" -> /\ Len(obj) = 2 /\ obj[1] = "json"
                               /\ obj[2] \in DOMAIN JsonObject
                               /\ JsonObject[obj[2]] = v.s

\* The caller stored its value without error, then read the same key with Get,
\* which was answered, and decoded the Reply with a matching accessor.
RoundTrip(c) ==
  /\ prev[c].name \in StoreNames \cup StructStoreNames /\ ~prev[c].failed
  /\ cur[c].op.name = "Get" /\ cur[c].op.key = prev[c].key
  /\ pc[c] = "idle" /\ wire[c].primary = "none"
  /\ dec.acc \in Matching(given)

\* C13 as stated: a value stored with Set*, or SetStruct* for a struct, and
\* read back with Get and the matching accessor is the value stored.
C13_RoundTrip ==
  \A c \in Callers : RoundTrip(c) => Yields(given, dec, target)

\* The expire argument the caller hands to SetWithExpire / SetStructWithExpire.
ExpireGiven(n) ==
  \A o \in menu : o.name \in {"SetWithExpire", "SetStructWithExpire"} => o.n = n

\* C13, amended: the same, when the expire argument of SetWithExpire and
\* SetStructWithExpire is positive (EXPIRE with 0 removes the key at once).
C13_RoundTripPositiveExpire ==
  \A c \in Callers :
    (RoundTrip(c) /\ (prev[c].name \in {"SetWithExpire", "SetStructWithExpire"}
                        => \E n \in ExpireArgs : n > 0 /\ ExpireGiven(n)))
      => Yields(given, dec, target)

\* The int 7 stored with SetWithExpire(key, 60, 7) came back from Int.
C13_Witness ==
  \E c \in Callers :
    /\ RoundTrip(c) /\ prev[c].name = "SetWithExpire" /\ ExpireGiven(60)
    /\ given = Value("int", "", 7, FALSE) /\ dec.acc = "Int" /\ dec.out = OfInt(7)


\* C16: HttpRequest.Do never returns a nil response together with a nil error,
\* whatever the method of the request.
C16_DoNeverNilNil ==
  httpRet.called => (httpRet.response # "nil" \/ httpRet.err # "nil")

=============================================================================
